---- MODULE Spec2Model ----
(***************************************************************************)
(* Model of bin/augment_race_music.py: the notation parser                 *)
(* (clean_music_to_list), the outcome normalizer (clean_results_position), *)
(* the history assembler (preprocess_df, get_music,                        *)
(* get_augmented_music_df) and the incremental merge (update_inputs).      *)
(*                                                                         *)
(* Python values are tagged records so that values of different Python     *)
(* types can be compared: None, NaN, [int |-> n], [float |-> n] and        *)
(* [str |-> <<"5", "p">>] (a string is the sequence of its characters).    *)
(* A dict is a function from its keys; a missing key is a key that is not  *)
(* in the DOMAIN.                                                          *)
(***************************************************************************)
EXTENDS Integers, Sequences, FiniteSets, TLC

VARIABLES
    pc,             \* where the program is
    error,          \* the exception that ended the run, "none" while it runs
    arg, ret,       \* argument and result of a direct call of a pure function
    performances,   \* glob_to_df: the rows read from the archive
    df,             \* the DataFrame handed from preprocess_df on
    historic,       \* the Series id -> augmented music (the running store)
    counter_no_id,  \* update_inputs: horses skipped for want of a genyId
    nfiles,         \* update_inputs: input files opened so far
    priceFirst,     \* update_inputs: price.first of the current race
    date,           \* update_inputs: raceScheduledStartEpochMs of the race
    horse,          \* update_inputs: the loop variable of `for horse in ...`
    partants,       \* update_inputs: the partants list being rebuilt
    nhorses,        \* update_inputs: partants read so far, over all input files
    data            \* update_inputs: the document last written by json.dump

vars == <<pc, error, arg, ret, performances, df, historic, counter_no_id,
          nfiles, priceFirst, date, horse, partants, nhorses, data>>

(***************************************************************************)
(* Bounds of the model.                                                    *)
(***************************************************************************)
MaxLen == 4         \* longest music string enumerated for a direct call
MaxDigits == 2      \* longest result string enumerated for a direct call
MaxArchive == 2     \* archive rows read by glob_to_df
MaxSeed == 2        \* archive rows behind the store update_inputs starts from
MaxFiles == 2       \* input files of one run of update_inputs
MaxHorses == 3      \* partants of all the input files of one run

(***************************************************************************)
(* Python values.                                                          *)
(***************************************************************************)
None == [none |-> TRUE]
NaN == [nan |-> TRUE]
PyInt(n) == [int |-> n]
PyFloat(n) == [float |-> n]
PyStr(chars) == [str |-> chars]

isnull(x) == x = None \/ x = NaN
IsInt(x) == "int" \in DOMAIN x
IsFloat(x) == "float" \in DOMAIN x

Digits == {"0", "1", "2", "3", "4", "5", "6", "7", "8", "9"}
DigitVal == [c \in Digits |->
    CASE c = "0" -> 0 [] c = "1" -> 1 [] c = "2" -> 2 [] c = "3" -> 3
      [] c = "4" -> 4 [] c = "5" -> 5 [] c = "6" -> 6 [] c = "7" -> 7
      [] c = "8" -> 8 [] c = "9" -> 9]

RECURSIVE DecimalValue(_)
DecimalValue(s) ==
    IF s = <<>> THEN 0
    ELSE 10 * DecimalValue(SubSeq(s, 1, Len(s) - 1)) + DigitVal[s[Len(s)]]

AllDigits(s) == s # <<>> /\ \A i \in 1..Len(s) : s[i] \in Digits

\* int(x) of a str: an optional minus sign, then decimal digits.
int_parses(x) ==
    \/ AllDigits(x.str)
    \/ x.str # <<>> /\ Head(x.str) = "-" /\ AllDigits(Tail(x.str))
int_of_str(x) ==
    IF Head(x.str) = "-" THEN 0 - DecimalValue(Tail(x.str))
    ELSE DecimalValue(x.str)

\* float(x) of a str of digits, as get_music applies it to a music token.
float_of_str(x) == PyFloat(DecimalValue(x.str))

max(a, b) == IF a >= b THEN a ELSE b
min(a, b) == IF a <= b THEN a ELSE b

(***************************************************************************)
(* clean_results_position (lines 99-111).  int() raises ValueError on a    *)
(* string that is no integer; the caller sees raises_ValueError.           *)
(***************************************************************************)
raises_ValueError(result_position) ==
    ~isnull(result_position) /\ ~int_parses(result_position)

clean_results_position_cap(result_position) ==
    IF isnull(result_position) THEN PyInt(10)
    ELSE PyInt(min(int_of_str(result_position), 10))

clean_results_position(result_position) ==
    IF isnull(result_position) THEN PyInt(10)
    ELSE PyInt(max(int_of_str(result_position), 10))

(***************************************************************************)
(* clean_music_to_list (lines 114-130).                                    *)
(***************************************************************************)
\* re.sub(r"\([^)]*\)", "", s): each "(" that has a ")" after it is removed
\* together with everything up to the first such ")".
RECURSIVE re_sub_parentheses(_)
re_sub_parentheses(s) ==
    IF s = <<>> THEN <<>>
    ELSE IF Head(s) = "(" /\ \E j \in 2..Len(s) : s[j] = ")"
         THEN LET j == CHOOSE k \in 2..Len(s) :
                           s[k] = ")" /\ \A m \in 2..(k - 1) : s[m] # ")"
              IN  re_sub_parentheses(SubSeq(s, j + 1, Len(s)))
         ELSE <<Head(s)>> \o re_sub_parentheses(Tail(s))

\* re.sub("[^1-9]", " ", s)
re_sub_not_1_9(s) ==
    [i \in 1..Len(s) |-> IF s[i] \in (Digits \ {"0"}) THEN s[i] ELSE " "]

\* str.split(): the maximal runs of non-blank characters, left to right.
RECURSIVE split_from(_, _)
split_from(s, cur) ==
    IF s = <<>> THEN (IF cur = <<>> THEN <<>> ELSE <<PyStr(cur)>>)
    ELSE IF Head(s) = " "
         THEN (IF cur = <<>> THEN <<>> ELSE <<PyStr(cur)>>)
              \o split_from(Tail(s), <<>>)
         ELSE split_from(Tail(s), Append(cur, Head(s)))
split(s) == split_from(s, <<>>)

clean_music_to_list(music) ==
    IF isnull(music) THEN <<>>
    ELSE LET musique1 == re_sub_parentheses(music.str)  \* line 127
             musique2 == re_sub_not_1_9(music.str)      \* line 128 reads music
         IN  split(musique2)

(***************************************************************************)
(* Direct calls of the two pure functions, on every bounded input.         *)
(***************************************************************************)
MusicAlphabet == {"5", "2", "0", "p", "(", ")"}
ResultAlphabet == {"0", "1", "3", "5", "9", "D", "-"}

RECURSIVE StringsUpTo(_, _)
StringsUpTo(alphabet, n) ==
    IF n = 0 THEN {<<>>}
    ELSE LET shorter == StringsUpTo(alphabet, n - 1)
         IN  shorter \cup {Append(s, c) : s \in shorter, c \in alphabet}

SampleMusic == <<"5", "p", "2", "(", "1", "9", ")", "3">>
MusicInputs ==
    {None} \cup {PyStr(s) : s \in StringsUpTo(MusicAlphabet, MaxLen) \cup {SampleMusic}}
ResultInputs ==
    {None} \cup {PyStr(s) : s \in StringsUpTo(ResultAlphabet, MaxDigits) \ {<<>>}}

Idle ==
    /\ performances = <<>> /\ df = <<>> /\ historic = <<>>
    /\ counter_no_id = 0 /\ nfiles = 0
    /\ priceFirst = None /\ date = None /\ horse = None
    /\ partants = <<>> /\ nhorses = 0 /\ data = None

InitFn ==
    /\ pc = "call" /\ error = "none"
    /\ arg \in MusicInputs \cup ResultInputs
    /\ ret = None
    /\ Idle

Call_clean_music_to_list ==
    /\ pc = "call" /\ arg \in MusicInputs
    /\ ret' = clean_music_to_list(arg)
    /\ pc' = "clean_music_to_list"
    /\ UNCHANGED <<error, arg, performances, df, historic, counter_no_id,
                   nfiles, priceFirst, date, horse, partants, nhorses, data>>

Call_clean_results_position ==
    /\ pc = "call" /\ arg \in ResultInputs
    /\ IF raises_ValueError(arg)
       THEN pc' = "aborted" /\ error' = "ValueError" /\ ret' = ret
       ELSE /\ pc' = "clean_results_position" /\ error' = error
            /\ ret' = clean_results_position(arg)
    /\ UNCHANGED <<arg, performances, df, historic, counter_no_id,
                   nfiles, priceFirst, date, horse, partants, nhorses, data>>

NextFn == Call_clean_music_to_list \/ Call_clean_results_position

SpecFn == InitFn /\ [][NextFn]_vars

(***************************************************************************)
(* The archive: glob_to_df (lines 18-64).  A row is the dict built at      *)
(* lines 41-52; pd.DataFrame(performances)[selected_columns] fills a key a *)
(* row lacks with NaN and raises KeyError for a column no row has.  The    *)
(* raceId column is read by nothing downstream and is left out.            *)
(***************************************************************************)
selected_columns == {"date", "horse.genyId", "musique", "results.position", "priceFirst"}

ArchiveIds == {PyInt(1), PyInt(2)}
ArchiveMusics == {PyStr(<<"5", "p">>), PyStr(<<"2", "(", "1", ")">>)}
ArchiveResults == {PyStr(<<"1", "5">>), PyStr(<<"D">>)}
ArchivePrices == {PyFloat(100)}

\* A dict entry, or no entry at all when the value is absent (NaN here).
Entry(key, value) == IF value = NaN THEN <<>> ELSE (key :> value)

horse_performance(id, musique, result, price, d) ==
    ("date" :> PyInt(d)) @@ Entry("horse.genyId", id) @@ Entry("musique", musique)
        @@ Entry("results.position", result) @@ Entry("priceFirst", price)

ArchiveRows(d) ==
    {horse_performance(id, m, r, p, d) :
        id \in ArchiveIds \cup {NaN}, m \in ArchiveMusics \cup {NaN},
        r \in ArchiveResults \cup {NaN}, p \in ArchivePrices \cup {NaN}}

has_columns(rows) ==
    \A c \in selected_columns : \E i \in 1..Len(rows) : c \in DOMAIN rows[i]

DataFrame(rows) ==
    [i \in 1..Len(rows) |->
        [c \in selected_columns |-> IF c \in DOMAIN rows[i] THEN rows[i][c] ELSE NaN]]

(***************************************************************************)
(* preprocess_df (lines 67-96).  A frame without columns (the empty one)   *)
(* raises KeyError twice, both caught; a ValueError of                     *)
(* clean_results_position is not caught.                                   *)
(***************************************************************************)
preprocess_raises(frame) ==
    \E i \in 1..Len(frame) : raises_ValueError(frame[i]["results.position"])

preprocess_df(frame) ==
    [i \in 1..Len(frame) |->
        [c \in selected_columns \cup {"cleaned_music"} |->
            IF c = "results.position"
            THEN clean_results_position(frame[i]["results.position"])
            ELSE IF c = "cleaned_music"
            THEN clean_music_to_list(frame[i]["musique"])
            ELSE frame[i][c]]]

(***************************************************************************)
(* get_music (lines 133-152): the 2D array of one horse's rows, under the  *)
(* music of its first row.  A float64 array holds every number as a float. *)
(***************************************************************************)
to_float(x) == IF IsInt(x) THEN PyFloat(x.int) ELSE x

values(rows) ==
    [i \in 1..Len(rows) |->
        <<to_float(rows[i]["results.position"]), to_float(rows[i]["priceFirst"]),
          to_float(rows[i]["date"])>>]

music_rows(music) ==
    [i \in 1..Len(music) |-> <<float_of_str(music[i]), NaN, NaN>>]

RECURSIVE music_rows_of_all(_)
music_rows_of_all(rows) ==
    IF rows = <<>> THEN <<>>
    ELSE music_rows(Head(rows)["cleaned_music"]) \o music_rows_of_all(Tail(rows))

get_music_every_row(rows) ==
    [ndarray |-> music_rows_of_all(rows) \o values(rows)]

get_music(rows) ==
    LET first_music == rows[1]["cleaned_music"]
        augmented_music == values(rows)
    IN  [ndarray |->
            IF first_music # <<>>
            THEN music_rows(first_music) \o augmented_music
            ELSE augmented_music]

(***************************************************************************)
(* get_augmented_music_df (lines 155-171).  groupby drops the rows whose   *)
(* key is NaN and keeps the rows of a group in their order; the key column *)
(* is float64 as soon as one key is NaN.  reindex looks the new labels up  *)
(* by numeric value and gives NaN to a label it does not find.             *)
(***************************************************************************)
group_keys(frame) ==
    LET ids == {frame[i]["horse.genyId"] : i \in 1..Len(frame)} \ {NaN}
    IN  IF \E i \in 1..Len(frame) : frame[i]["horse.genyId"] = NaN
        THEN {to_float(k) : k \in ids}
        ELSE ids

group(frame, key) ==
    SelectSeq(frame, LAMBDA row : to_float(row["horse.genyId"]) = to_float(key))

astype_int(k) == IF IsFloat(k) THEN PyInt(k.float) ELSE k

reindex(series, labels) ==
    [k \in labels |->
        IF \E old \in DOMAIN series : to_float(old) = to_float(k)
        THEN series[CHOOSE old \in DOMAIN series : to_float(old) = to_float(k)]
        ELSE NaN]

get_augmented_music_df(frame) ==
    IF frame = <<>> THEN <<>>
    ELSE LET series == [k \in group_keys(frame) |-> get_music(group(frame, k))]
         IN  reindex(series, {astype_int(k) : k \in DOMAIN series})

(***************************************************************************)
(* main (lines 295-299), up to the call of update_inputs.                  *)
(***************************************************************************)
InitArchive ==
    /\ pc = "glob_to_df" /\ error = "none"
    /\ arg = None /\ ret = None
    /\ Idle

glob_to_df_row ==
    /\ pc = "glob_to_df" /\ Len(performances) < MaxArchive
    /\ \E row \in ArchiveRows(Len(performances) + 1) :
           performances' = Append(performances, row)
    /\ UNCHANGED <<pc, error, arg, ret, df, historic, counter_no_id,
                   nfiles, priceFirst, date, horse, partants, nhorses, data>>

\* Line 27 returns the empty frame when no archive is given; line 64 raises
\* KeyError when the glob matched nothing or a selected column is missing.
glob_to_df_return ==
    /\ pc = "glob_to_df"
    /\ \E archive_is_None \in {performances = <<>>, FALSE} :
          IF archive_is_None
          THEN pc' = "preprocess_df" /\ df' = <<>> /\ error' = error
          ELSE IF performances = <<>> \/ ~has_columns(performances)
          THEN pc' = "aborted" /\ error' = "KeyError" /\ df' = df
          ELSE pc' = "preprocess_df" /\ df' = DataFrame(performances) /\ error' = error
    /\ UNCHANGED <<arg, ret, performances, historic, counter_no_id,
                   nfiles, priceFirst, date, horse, partants, nhorses, data>>

preprocess ==
    /\ pc = "preprocess_df"
    /\ IF df # <<>> /\ preprocess_raises(df)
       THEN pc' = "aborted" /\ error' = "ValueError" /\ df' = df
       ELSE /\ pc' = "get_augmented_music_df" /\ error' = error
            /\ df' = IF df = <<>> THEN df ELSE preprocess_df(df)
    /\ UNCHANGED <<arg, ret, performances, historic, counter_no_id,
                   nfiles, priceFirst, date, horse, partants, nhorses, data>>

get_augmented_music ==
    /\ pc = "get_augmented_music_df"
    /\ historic' = get_augmented_music_df(df)
    /\ pc' = "update_inputs"
    /\ UNCHANGED <<error, arg, ret, performances, df, counter_no_id,
                   nfiles, priceFirst, date, horse, partants, nhorses, data>>

NextArchive ==
    glob_to_df_row \/ glob_to_df_return \/ preprocess \/ get_augmented_music

SpecArchive == InitArchive /\ [][NextArchive]_vars

(***************************************************************************)
(* update_inputs (lines 205-286).  The run starts from the Series main     *)
(* hands over: the augmented music of a (bounded) archive.                 *)
(***************************************************************************)
SeedRows(d) ==
    {horse_performance(id, PyStr(<<"5", "p">>), PyStr(<<"1", "5">>), PyFloat(100), d) :
        id \in ArchiveIds}

RECURSIVE SeedArchives(_)
SeedArchives(n) ==
    IF n = 0 THEN {<<>>}
    ELSE LET shorter == SeedArchives(n - 1)
         IN  shorter \cup {Append(a, row) : a \in {x \in shorter : Len(x) = n - 1},
                                             row \in SeedRows(n)}

SeedStores ==
    {get_augmented_music_df(IF a = <<>> THEN <<>> ELSE preprocess_df(DataFrame(a))) :
        a \in SeedArchives(MaxSeed)}

\* The partants of the input files: with or without horse.genyId, with or
\* without results.position.
HorseIds == {PyInt(1), PyInt(2)}
HorseResults == {PyStr(<<"3">>), PyStr(<<"D">>)}
RacePrices == {PyFloat(200)}

Horses ==
    {("numPmu" :> PyInt(7)),
     ("numPmu" :> PyInt(7)) @@ ("horse" :> ("nom" :> PyStr(<<"x">>)))
         @@ ("results" :> ("position" :> PyStr(<<"3">>)))}
    \cup {("numPmu" :> PyInt(7)) @@ ("horse" :> ("genyId" :> id)) @@ r :
            id \in HorseIds,
            r \in {<<>>} \cup {("results" :> ("position" :> p)) : p \in HorseResults}}

\* Lines 241-246 and 250-254: a bare except around the two lookups.
has_id(h) == "horse" \in DOMAIN h /\ "genyId" \in DOMAIN h["horse"]
has_result(h) == "results" \in DOMAIN h /\ "position" \in DOMAIN h["results"]

\* Lines 248-257.
performance_of(h, price, d) ==
    [position |-> IF has_result(h) THEN h["results"]["position"] ELSE None,
     priceFirst |-> price,
     date |-> d,
     dai |-> ~has_result(h)]

Init ==
    /\ pc = "update_inputs" /\ error = "none"
    /\ arg = None /\ ret = None
    /\ performances = <<>> /\ df = <<>>
    /\ historic \in SeedStores
    /\ counter_no_id = 0 /\ nfiles = 0
    /\ priceFirst = None /\ date = None /\ horse = None
    /\ partants = <<>> /\ nhorses = 0 /\ data = None

open_input_file_resets_counter ==
    /\ pc = "update_inputs" /\ nfiles < MaxFiles
    /\ \E price \in RacePrices \cup {NaN} : priceFirst' = price
    /\ nfiles' = nfiles + 1
    /\ date' = PyInt(1000 + nfiles')
    /\ partants' = <<>>
    /\ counter_no_id' = 0
    /\ pc' = "partants"
    /\ UNCHANGED <<error, arg, ret, performances, df, historic, horse, nhorses, data>>

\* Lines 222-239: the next input file is opened and its race read.
open_input_file ==
    /\ pc = "update_inputs" /\ nfiles < MaxFiles
    /\ \E price \in RacePrices \cup {NaN} : priceFirst' = price
    /\ nfiles' = nfiles + 1
    /\ date' = PyInt(1000 + nfiles')
    /\ partants' = <<>>
    /\ pc' = "partants"
    /\ UNCHANGED <<error, arg, ret, performances, df, historic, counter_no_id,
                   horse, nhorses, data>>

horse_without_id_uncounted ==
    /\ pc = "partants" /\ nhorses < MaxHorses
    /\ nhorses' = nhorses + 1
    /\ \E h \in Horses :
          /\ ~has_id(h)
          /\ horse' = h
          /\ partants' = Append(partants, h)
    /\ UNCHANGED <<pc, error, arg, ret, performances, df, historic, counter_no_id,
                   nfiles, priceFirst, date, data>>

\* Lines 240-246: a horse without genyId.
horse_without_id ==
    /\ pc = "partants" /\ nhorses < MaxHorses
    /\ nhorses' = nhorses + 1
    /\ \E h \in Horses :
          /\ ~has_id(h)
          /\ horse' = h
          /\ counter_no_id' = counter_no_id + 1
          /\ partants' = Append(partants, h)
    /\ UNCHANGED <<pc, error, arg, ret, performances, df, historic, nfiles,
                   priceFirst, date, data>>

horse_first_appearance_twice ==
    /\ pc = "partants" /\ nhorses < MaxHorses
    /\ nhorses' = nhorses + 1
    /\ \E h \in Horses :
          /\ has_id(h)
          /\ h["horse"]["genyId"] \notin DOMAIN historic
          /\ horse' = h
          /\ historic' = historic @@
                (h["horse"]["genyId"] :>
                    [list |-> <<performance_of(h, priceFirst, date),
                                performance_of(h, priceFirst, date)>>])
          /\ partants' = Append(partants, h @@ ("augmentedMusic" :> <<>>))
    /\ UNCHANGED <<pc, error, arg, ret, performances, df, counter_no_id, nfiles,
                   priceFirst, date, data>>

\* Lines 279-282: a horse whose id is not in historic.  historic[id] = ...
\* adds the label id to the Series, with the one-element list as its value.
horse_first_appearance ==
    /\ pc = "partants" /\ nhorses < MaxHorses
    /\ nhorses' = nhorses + 1
    /\ \E h \in Horses :
          /\ has_id(h)
          /\ h["horse"]["genyId"] \notin DOMAIN historic
          /\ horse' = h
          /\ historic' = historic @@
                (h["horse"]["genyId"] :> [list |-> <<performance_of(h, priceFirst, date)>>])
          /\ partants' = Append(partants, h @@ ("augmentedMusic" :> <<>>))
    /\ UNCHANGED <<pc, error, arg, ret, performances, df, counter_no_id, nfiles,
                   priceFirst, date, data>>

\* Lines 262-277: the loop over historic[id].  Its first iteration raises:
\* a row of a list entry is a dict, which has no key 0 (line 265); a row of
\* an ndarray entry passes lines 265-276 and then line 277 calls .append,
\* which an ndarray does not have.  Only an empty entry runs no iteration.
for_histo(entry) ==
    IF entry = NaN THEN [error |-> "TypeError"]
    ELSE IF "list" \in DOMAIN entry
    THEN (IF entry.list = <<>> THEN [error |-> "none"] ELSE [error |-> "KeyError"])
    ELSE IF entry.ndarray = <<>> THEN [error |-> "none"]
    ELSE IF entry.ndarray[1][1] = NaN THEN [error |-> "ValueError"]
    ELSE [error |-> "AttributeError"]

horse_known ==
    /\ pc = "partants" /\ nhorses < MaxHorses
    /\ nhorses' = nhorses + 1
    /\ \E h \in Horses :
          /\ has_id(h)
          /\ h["horse"]["genyId"] \in DOMAIN historic
          /\ horse' = h
          /\ LET loop == for_histo(historic[h["horse"]["genyId"]])
             IN  IF loop.error = "none"
                 THEN /\ partants' = Append(partants, h @@ ("augmentedMusic" :> <<>>))
                      /\ pc' = pc /\ error' = error
                 ELSE /\ partants' = partants
                      /\ pc' = "aborted" /\ error' = loop.error
    /\ UNCHANGED <<arg, ret, performances, df, historic, counter_no_id, nfiles,
                   priceFirst, date, data>>

\* Lines 283-284.
write_output_file ==
    /\ pc = "partants"
    /\ data' = [partants |-> partants, priceFirst |-> priceFirst, date |-> date]
    /\ pc' = "update_inputs"
    /\ UNCHANGED <<error, arg, ret, performances, df, historic, counter_no_id,
                   nfiles, priceFirst, date, horse, partants, nhorses>>

\* Lines 285-286.
update_inputs_return ==
    /\ pc = "update_inputs"
    /\ pc' = "done"
    /\ UNCHANGED <<error, arg, ret, performances, df, historic, counter_no_id,
                   nfiles, priceFirst, date, horse, partants, nhorses, data>>

Next ==
    \/ open_input_file
    \/ horse_without_id
    \/ horse_first_appearance
    \/ horse_known
    \/ write_output_file
    \/ update_inputs_return

Spec == Init /\ [][Next]_vars

(***************************************************************************)
(* Helpers of the properties below.                                        *)
(***************************************************************************)
Last(seq) == seq[Len(seq)]
get(row, key) == IF key \in DOMAIN row THEN row[key] ELSE NaN
id_of(h) == h["horse"]["genyId"]

\* A step that runs the body of `for horse in data["partants"]` once.
HorseStep == nhorses' = nhorses + 1

\* The outcomes of a store entry, as the items of an augmentedMusic list:
\* position always, priceFirst and date only when the outcome has them.
ItemsOf(entry) ==
    IF "list" \in DOMAIN entry
    THEN [i \in 1..Len(entry.list) |->
            ("position" :> entry.list[i].position)
                @@ Entry("priceFirst", entry.list[i].priceFirst)
                @@ Entry("date", entry.list[i].date)]
    ELSE [i \in 1..Len(entry.ndarray) |->
            ("position" :> PyInt(entry.ndarray[i][1].float))
                @@ Entry("priceFirst", entry.ndarray[i][2])
                @@ Entry("date", entry.ndarray[i][3])]

OutcomesOf(entry) ==
    IF "list" \in DOMAIN entry THEN entry.list ELSE entry.ndarray

PositionsOf(tokens) == [i \in 1..Len(tokens) |-> DecimalValue(tokens[i].str)]

\* C1: every record whose competitor is known to the store is emitted with
\* augmentedMusic equal to the competitor's history as the store held it
\* before this record's outcome is appended (so the third record of a
\* competitor shows the history through the second).
C1_SnapshotBeforeAppend ==
    [][(HorseStep /\ has_id(horse') /\ id_of(horse') \in DOMAIN historic)
        => /\ pc' = "partants"
           /\ partants' = Append(partants,
                 horse' @@ ("augmentedMusic" :> ItemsOf(historic[id_of(horse')])))]_vars

\* C2: a record whose competitor is not a key of the store is emitted with
\* an empty augmentedMusic, and right after it the store holds an entry of
\* size exactly 1 for that competitor, the outcome of this race.
C2_FirstAppearance ==
    [][(HorseStep /\ has_id(horse') /\ id_of(horse') \notin DOMAIN historic)
        => /\ pc' = "partants"
           /\ partants' = Append(partants, horse' @@ ("augmentedMusic" :> <<>>))
           /\ id_of(horse') \in DOMAIN historic'
           /\ Len(OutcomesOf(historic'[id_of(horse')])) = 1
           /\ OutcomesOf(historic'[id_of(horse')])[1].date = date
           /\ OutcomesOf(historic'[id_of(horse')])[1].priceFirst = priceFirst]_vars

C2_Witness ==
    /\ pc = "partants" /\ partants # <<>>
    /\ has_id(horse)
    /\ Last(partants) = horse @@ ("augmentedMusic" :> <<>>)
    /\ Len(OutcomesOf(historic[id_of(horse)])) = 1
    /\ Cardinality(DOMAIN historic) = 2

\* C3: a record without competitor identifier is emitted unchanged (no
\* augmentedMusic is added), leaves the store as it is, lets the run go on,
\* and adds exactly one to the missing-identifier counter, which nothing
\* else changes.
C3_MissingIdentifier ==
    [][IF HorseStep /\ ~has_id(horse')
       THEN /\ partants' = Append(partants, horse')
            /\ "augmentedMusic" \notin DOMAIN Last(partants')
            /\ historic' = historic
            /\ pc' = "partants" /\ error' = "none"
            /\ counter_no_id' = counter_no_id + 1
       ELSE counter_no_id' = counter_no_id]_vars

C3_Witness ==
    /\ pc = "partants" /\ Len(partants) = 2
    /\ ~has_id(partants[1]) /\ "augmentedMusic" \notin DOMAIN partants[1]
    /\ horse = partants[2] /\ ~has_id(horse)
    /\ counter_no_id = 2
    /\ historic # <<>>

\* C4: a result that is present but is no integer (the marker D) never
\* aborts the run: it is recovered locally and treated as a missing result.
C4_MalformedResultRecovered ==
    ~(pc = "aborted" /\ error = "ValueError")

\* C5: clean_music_to_list discards every parenthesized substring, digits
\* included, before it tokenizes: the positions it returns are those of the
\* text without its parenthesized parts, left to right; "5p2(19)3" gives
\* 5, 2, 3.
C5_ParenthesesDiscarded ==
    (pc = "clean_music_to_list" /\ ~isnull(arg))
        => /\ PositionsOf(ret) =
                PositionsOf(split(re_sub_not_1_9(re_sub_parentheses(arg.str))))
           /\ (arg.str = SampleMusic => PositionsOf(ret) = <<5, 2, 3>>)

ArchiveGroup(id) ==
    SelectSeq(performances, LAMBDA r : get(r, "horse.genyId") = id)

C7_SeedOncePerCompetitor ==
    pc = "update_inputs"
        => /\ DOMAIN historic =
                {get(performances[i], "horse.genyId") : i \in 1..Len(performances)} \ {NaN}
           /\ \A id \in DOMAIN historic :
                LET records == ArchiveGroup(id)
                    seed == clean_music_to_list(get(records[1], "musique"))
                    h == historic[id].ndarray
                IN  /\ Len(h) = Len(seed) + Len(records)
                    /\ \A i \in 1..Len(seed) :
                          h[i] = <<PyFloat(DecimalValue(seed[i].str)), NaN, NaN>>
                    /\ \A j \in 1..Len(records) :
                          h[Len(seed) + j] =
                            <<to_float(clean_results_position(get(records[j], "results.position"))),
                              get(records[j], "priceFirst"),
                              to_float(records[j]["date"])>>

C7_Witness ==
    /\ pc = "update_inputs" /\ Len(performances) = 2
    /\ DOMAIN historic = {PyInt(1)}
    /\ get(performances[1], "musique") = PyStr(<<"5", "p">>)
    /\ get(performances[2], "musique") = PyStr(<<"2", "(", "1", ")">>)
    /\ Len(historic[PyInt(1)].ndarray) = 3

\* C8: merging an empty batch leaves the store and the missing-identifier
\* counter as they were and writes an empty list of augmented records: no
\* step but the processing of a record changes store or counter, and a file
\* closed with no record processed is written with no partants.
C8_EmptyBatch ==
    [][/\ (~HorseStep => historic' = historic /\ counter_no_id' = counter_no_id)
       /\ (pc = "partants" /\ pc' = "update_inputs" /\ partants = <<>>
             => data'.partants = <<>>)]_vars

C8_Witness ==
    /\ pc = "update_inputs" /\ nfiles = 2
    /\ data # None /\ data.partants = <<>>
    /\ counter_no_id > 0
    /\ Cardinality(DOMAIN historic) = 2

\* C9: processing a record with competitor identifier c makes the history
\* of c grow by exactly one outcome appended at its end, leaves every other
\* history unchanged, and no store entry is ever removed.
C9_StoreGrowsByOne ==
    [][/\ DOMAIN historic \subseteq DOMAIN historic'
       /\ (HorseStep /\ has_id(horse'))
            => LET c == id_of(horse')
                   before == IF c \in DOMAIN historic
                             THEN OutcomesOf(historic[c]) ELSE <<>>
               IN  /\ c \in DOMAIN historic'
                   /\ Len(OutcomesOf(historic'[c])) = Len(before) + 1
                   /\ SubSeq(OutcomesOf(historic'[c]), 1, Len(before)) = before
                   /\ \A k \in DOMAIN historic \ {c} : historic'[k] = historic[k]]_vars

\* C10: the outcome a record with a competitor identifier adds to the store
\* has position = clean_results_position of the raw result (10 when the
\* result is absent, always an integer >= 10), the purse and date of the
\* race, and a flag that is true exactly when the raw result is absent.
C10_AppendedOutcome ==
    [][(HorseStep /\ has_id(horse') /\ pc' = "partants"
            /\ ~raises_ValueError(get(get(horse', "results"), "position")))
        => LET added == Last(OutcomesOf(historic'[id_of(horse')]))
               raw == IF has_result(horse') THEN horse'["results"]["position"] ELSE None
           IN  /\ added.position = clean_results_position(raw)
               /\ added.priceFirst = priceFirst
               /\ added.date = date
               /\ added.dai = ~has_result(horse')]_vars

====
